---- MODULE Spec2Model ----
(***************************************************************************)
(* Model of grib-getter's fetch engine (src/noaa_grib_fetcher.py):         *)
(* fetch_with_timeout -> fetch_most_recent_forecast ->                     *)
(* fetch_with_exponential_backoff -> fetch_with_retry.                     *)
(*                                                                         *)
(* Time is counted in milliseconds.  An Optional value is a sequence of    *)
(* length 0 (None) or 1 (the value).  URLs of the lazy sequence are        *)
(* numbered 1..n_urls in the order the iterator yields them.               *)
(***************************************************************************)
EXTENDS Integers, Sequences, FiniteSets, TLC

\* ------------------------------------------------------------------ bounds
\* Longest URL sequence handed to the engine.
MaxUrls == 3
\* Largest configured retry_settings.max_attempts (0..MaxAttempts are tried).
MaxAttempts == 3
\* Most tries of one run that end in a fault: anything but the answers 200 and
\* 404 (a 5xx or another status, a request timeout, a network error, another
\* exception, the alarm caught inside the try).
MaxFaults == 2

\* ------------------------------------------------- configuration constants
\* settings.http_settings.success / not_found / server_error
HttpSuccess == 200
HttpNotFound == 404
HttpServerError == 500
\* settings.noaa_settings.rate_limit_seconds, in ms
RateLimitMs == 10000

\* (initial_delay_seconds, max_delay_seconds) tried, in ms: the second
\* backoff of a URL is already capped by max_delay
DelayConfigs == { <<1000, 1500>> }
\* values of random.random() tried, in tenths: 0.0, 0.5, 0.9
RandomTenths == {0, 5, 9}

None == <<>>
Some(x) == <<x>>
IsNone(o) == o = <<>>

Min(a, b) == IF a <= b THEN a ELSE b
Max(a, b) == IF a >= b THEN a ELSE b

\* Status codes the server answers with: success, a client error, not found
\* and a server error above the server_error threshold.
StatusCodes == {200, 403, 404, 503}
\* Exceptions httpx.get raises.
TransportErrors == {"timeout", "network_error", "unknown_error"}

\* Outcome of one httpx.get: a status code with a body, or a raised exception.
Outcomes(u) ==
    [kind : {"status"}, status : StatusCodes \ {HttpSuccess}, content : {<<>>}, error : {""}]
    \cup [kind : {"status"}, status : {HttpSuccess}, content : {<<>>, <<u>>}, error : {""}]
    \cup [kind : {"raise"}, status : {0}, content : {<<>>}, error : TransportErrors]

VARIABLES
    cfg,           \* n_urls, max_attempts, initial_delay, max_delay, rate_limit
    pc,            \* position of the single thread of control
    url_count,     \* URLs taken from query_urls so far (the current URL)
    first_url,     \* fetch_most_recent_forecast.first_url
    attempt_num,   \* fetch_with_exponential_backoff.attempt_num
    attempts,      \* fetch_with_exponential_backoff.attempts
    all_attempts,  \* fetch_most_recent_forecast.all_attempts
    response,      \* Optional response returned by the per-URL loop
    result,        \* Optional FetchResult returned to the caller
    dir_made,      \* this run has called output_path.parent.mkdir
    file_written,  \* Optional: what this run has left in output_path
                   \* (None: the path is as it was before the run)
    alarm,         \* "armed" | "fired": the SIGALRM of fetch_with_timeout
    faults,        \* faults the transport has produced
    clock,         \* logical clock stamping FetchAttempt.timestamp
    last_sleep,    \* Optional: the last time.sleep taken, with its jitter
    trace,         \* every HTTP request and sleep of the run, in order
    qt,            \* one call of the cycle resolver (noaa_query_builder)
    mk,            \* one call of the mask codec (noaa_query_builder)
    geo,           \* one call of the geographic utilities (noaa_query_builder)
    bk,            \* the files of the fetch command (fetch_forecast)
    fr,            \* one call of fetch_with_retry (noaa_grib_fetcher)
    cmd            \* one run of a caller of the engine: fetch or main

vars == << cfg, pc, url_count, first_url, attempt_num, attempts, all_attempts,
           response, result, dir_made, file_written, alarm, faults, clock,
           last_sleep, trace, qt, mk, geo, bk, fr, cmd >>

\* The variables of the fetch engine.
engine_vars == << cfg, pc, url_count, first_url, attempt_num, attempts,
                  all_attempts, response, result, dir_made, file_written, alarm,
                  faults, clock, last_sleep, trace >>

\* ------------------------------------------------------------ pure helpers
RECURSIVE Pow2(_)
Pow2(n) == IF n <= 0 THEN 1 ELSE 2 * Pow2(n - 1)

\* The delay with 2 * attempt in place of 2 ** attempt.
BackoffBaseLinear(attempt, initial_delay, max_delay) ==
    Min(initial_delay * (2 * attempt), max_delay)

\* calculate_exponential_backoff, the delay before jitter:
\*   delay = min(initial_delay * (2**attempt), max_delay)
BackoffBase(attempt, initial_delay, max_delay) ==
    Min(initial_delay * Pow2(attempt), max_delay)

\* calculate_exponential_backoff with random.random() = r/10:
\*   jitter = delay * 0.2 * (2 * random.random() - 1);  return delay + jitter
CalculateExponentialBackoff(attempt, initial_delay, max_delay, r) ==
    LET delay  == BackoffBase(attempt, initial_delay, max_delay)
        jitter == (delay * (2 * r - 10)) \div 50
    IN  delay + jitter

\* should_retry_status_code accepting every status but success.
ShouldRetryAnyFailure(status_code) == status_code # HttpSuccess

\* should_retry_status_code
ShouldRetryStatusCode(status_code) ==
    IF status_code = HttpNotFound THEN FALSE
    ELSE status_code >= HttpServerError

\* Python truthiness of an Optional int (None and 0 are falsy).
Truthy(opt) == ~IsNone(opt) /\ opt[1] # 0

\* fetch_with_retry: <<Optional response, FetchAttempt>> for one pass through
\* its try block: httpx.get answers ("status"), httpx.get raises ("raise"),
\* or the block is left by an exception after the status was stored
\* ("interrupted").
FetchWithRetry(url, outcome, ts) ==
    LET attempt == [url |-> url, status_code |-> None, error_type |-> None,
                    timestamp |-> ts]
    IN  IF outcome.kind = "status"
        THEN LET a == [attempt EXCEPT !.status_code = Some(outcome.status)]
             IN  IF outcome.status = HttpSuccess
                 THEN << Some([status_code |-> outcome.status,
                               content |-> outcome.content]), a >>
                 ELSE IF outcome.status = HttpNotFound
                 THEN << None, a >>
                 ELSE IF outcome.status >= HttpServerError
                 THEN << None, [a EXCEPT !.error_type = Some("server_error")] >>
                 ELSE << None, [a EXCEPT !.error_type = Some("client_error")] >>
        ELSE IF outcome.kind = "interrupted"
        THEN \* an exception raised inside the try block after
             \* attempt.status_code was stored: `except Exception`
             << None, [attempt EXCEPT !.status_code = Some(outcome.status),
                                      !.error_type = Some(outcome.error)] >>
        ELSE << None, [attempt EXCEPT !.error_type = Some(outcome.error)] >>

\* The per-URL loop without its break.
BreaksNever(attempt) == FALSE

\* The check after a try without response (fetch_with_exponential_backoff):
\*   if attempt.status_code and not should_retry_status_code(attempt.status_code): break
BreaksLoop(attempt) ==
    Truthy(attempt.status_code) /\ ~ShouldRetryStatusCode(attempt.status_code[1])

\* The sleep taken only after the first failed try.
SleepsAfterFirstOnly(num, max_attempts) == num < 1 /\ num < max_attempts - 1

\* "Don't sleep after last attempt": if attempt_num < max_attempts - 1
SleepsAfter(num, max_attempts) == num < max_attempts - 1

\* A loop that never runs out of passes (while True).
InRangeUnbounded(k, max_attempts) == TRUE

\* range(max_attempts + 1)
InRangeInclusive(k, max_attempts) == k <= max_attempts

\* for attempt_num in range(max_attempts): k is one of the loop's passes.
InRange(k, max_attempts) == k < max_attempts

\* The wait taken before every URL, the first included.
RateLimitedEvenFirst(first) == TRUE

\* "Rate limiting: wait between requests (except first)": if not first_url
RateLimited(first) == ~first

\* The test that a per-URL result is saved (fetch_most_recent_forecast):
\*   if response is not None and response.status_code == settings.http_settings.success
SavesResponse(resp) == ~IsNone(resp) /\ resp[1].status_code = HttpSuccess

\* all_attempts.extend(attempts) left out.
ExtendKeepsOld(all, some) == all
\* all_attempts = attempts in place of extend.
ExtendOverwrites(all, some) == some
\* all_attempts.extend(attempts)
Extend(all, some) == all \o some

\* fetch_with_retry with the httpx handlers alone, the catch-all left out.
CaughtHttpxOnly(error) == error \in {"timeout", "network_error"}

\* The except clauses of fetch_with_retry: httpx.TimeoutException ("timeout"),
\* httpx.NetworkError ("network_error") and Exception ("unknown_error").
Caught(error) == error \in {"timeout", "network_error", "unknown_error"}

\* An outcome that counts against the budget of faults.
IsFault(outcome) ==
    outcome.kind = "raise" \/ outcome.status \notin {HttpSuccess, HttpNotFound}

RequestEvent(u, k) == [kind |-> "request", url |-> u, attempt |-> k, ms |-> 0]
\* A try of fetch_with_retry that ended before httpx.get was called.
TryEvent(u, k) == [kind |-> "try", url |-> u, attempt |-> k, ms |-> 0]
RateSleepEvent(u, ms) == [kind |-> "rate_sleep", url |-> u, attempt |-> 0, ms |-> ms]
BackoffEvent(u, k, ms) == [kind |-> "backoff_sleep", url |-> u, attempt |-> k, ms |-> ms]

\* -------------------------------------------------------------------- Init
Init ==
    /\ \E n \in 0..MaxUrls, m \in 0..MaxAttempts, d \in DelayConfigs :
          cfg = [n_urls |-> n, max_attempts |-> m, initial_delay |-> d[1],
                 max_delay |-> d[2], rate_limit |-> RateLimitMs]
    /\ pc = "loop"
    /\ url_count = 0
    /\ first_url = TRUE
    /\ attempt_num = 0
    /\ attempts = <<>>
    /\ all_attempts = <<>>
    /\ response = None
    /\ result = None
    /\ dir_made = FALSE
    /\ file_written = None
    /\ alarm = "armed"
    /\ faults = 0
    /\ clock = 0
    /\ last_sleep = None
    /\ trace = <<>>
    /\ qt = None
    /\ mk = None
    /\ geo = None
    /\ bk = None
    /\ fr = None
    /\ cmd = None

\* ----------------------------------------------------------------- actions
\* fetch_with_exponential_backoff returns (resp, atts) to
\* fetch_most_recent_forecast: the cumulative log is extended, and the engine
\* either starts saving the payload or goes on to the next URL.
LoopReturns(resp, atts) ==
    /\ response' = resp
    /\ attempts' = atts
    /\ all_attempts' = Extend(all_attempts, atts)
    /\ pc' = IF SavesResponse(resp) THEN "save" ELSE "loop"

\* The per-URL loop `for attempt_num in range(max_attempts)` moves to pass k
\* of URL u, with `tr` the trace and `atts` the attempts so far: pass k begins
\* with fetch_with_retry's httpx.get, or the range is used up and the
\* function returns (None, attempts).
LoopPass(k, u, tr, atts) ==
    IF InRange(k, cfg.max_attempts)
    THEN /\ attempt_num' = k
         /\ pc' = "request"
         /\ trace' = Append(tr, RequestEvent(u, k))
         /\ attempts' = atts
         /\ response' = None
         /\ UNCHANGED all_attempts
    ELSE /\ attempt_num' = attempt_num
         /\ trace' = tr
         /\ LoopReturns(None, atts)

\* for url in query_urls: the iterator yields the next URL.  Before every URL
\* but the first the engine sleeps rate_limit_seconds; then
\* fetch_with_exponential_backoff(url) starts with attempts = [].
NextUrl ==
    /\ pc = "loop"
    /\ url_count < cfg.n_urls
    /\ url_count' = url_count + 1
    /\ first_url' = FALSE
    /\ IF RateLimited(first_url)
       THEN /\ pc' = "rate_sleep"
            /\ trace' = Append(trace, RateSleepEvent(url_count + 1, cfg.rate_limit))
            /\ last_sleep' = Some([kind |-> "rate_sleep", ms |-> cfg.rate_limit])
            /\ UNCHANGED << attempts, attempt_num, response, all_attempts >>
       ELSE /\ LoopPass(0, url_count + 1, trace, <<>>)
            /\ UNCHANGED last_sleep
    /\ UNCHANGED << qt, mk, geo, bk, fr, cmd, cfg, result, dir_made, file_written, alarm, faults, clock >>

\* time.sleep(rate_limit_seconds) returns; the per-URL loop starts.
RateLimitWake ==
    /\ pc = "rate_sleep"
    /\ LoopPass(0, url_count, trace, <<>>)
    /\ last_sleep' = None
    /\ UNCHANGED << qt, mk, geo, bk, fr, cmd, cfg, url_count, first_url, result, dir_made, file_written,
                    alarm, faults, clock >>

\* One pass of the per-URL loop body once the try block of fetch_with_retry
\* has ended with `outcome`, `tr` being the requests and sleeps made so far:
\* fetch_with_retry classifies it, the attempt is appended, and the loop
\* returns the response, breaks, sleeps, or goes straight to its next pass.
TryCompletesFrom(outcome, tr) ==
    LET got     == FetchWithRetry(url_count, outcome, clock)
        resp    == got[1]
        attempt == got[2]
        atts    == Append(attempts, attempt)
    IN  /\ clock' = clock + 1
        /\ IF outcome.kind = "raise" /\ ~Caught(outcome.error)
           THEN \* no handler: the exception unwinds the engine's frames
                /\ pc' = "raised"
                /\ attempt_num' = 0
                /\ attempts' = <<>>
                /\ all_attempts' = <<>>
                /\ response' = None
                /\ last_sleep' = None
                /\ trace' = tr
           ELSE IF ~IsNone(resp)
           THEN /\ LoopReturns(resp, atts)
                /\ trace' = tr
                /\ UNCHANGED << attempt_num, last_sleep >>
           ELSE IF BreaksLoop(attempt)
           THEN /\ LoopReturns(None, atts)
                /\ trace' = tr
                /\ UNCHANGED << attempt_num, last_sleep >>
           ELSE IF SleepsAfter(attempt_num, cfg.max_attempts)
           THEN /\ response' = None
                /\ attempts' = atts
                /\ pc' = "backoff_sleep"
                /\ trace' = Append(tr, BackoffEvent(url_count, attempt_num,
                              BackoffBase(attempt_num, cfg.initial_delay, cfg.max_delay)))
                /\ \E r \in RandomTenths :
                      last_sleep' = Some([kind |-> "backoff_sleep",
                          ms |-> CalculateExponentialBackoff(attempt_num,
                                    cfg.initial_delay, cfg.max_delay, r)])
                /\ UNCHANGED << attempt_num, all_attempts >>
           ELSE /\ LoopPass(attempt_num + 1, url_count, tr, atts)
                /\ UNCHANGED last_sleep

\* The pass ends after the httpx.get whose request the trace already shows.
TryCompletes(outcome) == TryCompletesFrom(outcome, trace)

\* httpx.get answers or raises.
Request ==
    /\ pc = "request"
    /\ \E outcome \in Outcomes(url_count) :
          /\ IsFault(outcome) => faults < MaxFaults
          /\ faults' = IF IsFault(outcome) THEN faults + 1 ELSE faults
          /\ TryCompletes(outcome)
    /\ UNCHANGED << qt, mk, geo, bk, fr, cmd, cfg, url_count, first_url, result, dir_made, file_written,
                    alarm >>

\* time.sleep(delay) returns; the loop goes to its next pass.
BackoffWake ==
    /\ pc = "backoff_sleep"
    /\ LoopPass(attempt_num + 1, url_count, trace, attempts)
    /\ last_sleep' = None
    /\ UNCHANGED << qt, mk, geo, bk, fr, cmd, cfg, url_count, first_url, result, dir_made, file_written,
                    alarm, faults, clock >>

\* The success branch without its return: the file is written and the loop
\* over the URLs goes on.
SaveAndContinue ==
    /\ pc = "save"
    /\ dir_made' = TRUE
    /\ file_written' = Some(response[1].content)
    /\ pc' = "loop"
    /\ UNCHANGED << qt, mk, geo, bk, fr, cmd, cfg, url_count, first_url, attempt_num, attempts, all_attempts,
                    response, result, alarm, faults, clock, last_sleep, trace >>

\* The success branch, run to its end:
\*   output_path.parent.mkdir(parents=True, exist_ok=True)
\*   output_path.write_bytes(response.content)
\*   return FetchResult(data=response.content, attempts=all_attempts, success=True)
SaveAndReturn ==
    /\ pc = "save"
    /\ dir_made' = TRUE
    /\ file_written' = Some(response[1].content)
    /\ result' = Some([data |-> Some(response[1].content),
                       attempts |-> all_attempts, success |-> TRUE])
    /\ pc' = "done"
    /\ UNCHANGED << qt, mk, geo, bk, fr, cmd, cfg, url_count, first_url, attempt_num, attempts, all_attempts,
                    response, alarm, faults, clock, last_sleep, trace >>

\* The failure return with the destination directory made first.
ReturnFailureAfterMkdir ==
    /\ pc = "loop"
    /\ url_count = cfg.n_urls
    /\ dir_made' = TRUE
    /\ result' = Some([data |-> None, attempts |-> all_attempts, success |-> FALSE])
    /\ pc' = "done"
    /\ UNCHANGED << qt, mk, geo, bk, fr, cmd, cfg, url_count, first_url, attempt_num, attempts, all_attempts,
                    response, file_written, alarm, faults, clock, last_sleep, trace >>

\* The URL sequence is exhausted:
\* return FetchResult(data=None, attempts=all_attempts, success=False)
ReturnFailure ==
    /\ pc = "loop"
    /\ url_count = cfg.n_urls
    /\ result' = Some([data |-> None, attempts |-> all_attempts, success |-> FALSE])
    /\ pc' = "done"
    /\ UNCHANGED << qt, mk, geo, bk, fr, cmd, cfg, url_count, first_url, attempt_num, attempts, all_attempts,
                    response, dir_made, file_written, alarm, faults, clock,
                    last_sleep, trace >>

\* SIGALRM arrives and timeout_handler raises TimeoutError in the main thread.
\* Outside fetch_with_retry's try block nothing catches it: it unwinds the
\* frames of the engine (their locals are gone) and leaves fetch_with_timeout.
AlarmRaises ==
    /\ alarm = "armed"
    /\ pc \notin {"done", "raised"}
    /\ alarm' = "fired"
    /\ pc' = "raised"
    /\ attempt_num' = 0
    /\ attempts' = <<>>
    /\ all_attempts' = <<>>
    /\ response' = None
    /\ last_sleep' = None
    /\ UNCHANGED << qt, mk, geo, bk, fr, cmd, cfg, url_count, first_url, result, dir_made, file_written,
                    faults, clock, trace >>

\* What an interrupted success branch has left on disk: the directory alone
\* (after mkdir), the file opened "wb" and so truncated but not yet written,
\* or the whole file (written, the result not yet returned).
InterruptedSaves(content) ==
    { [dir |-> TRUE, file |-> None],
      [dir |-> TRUE, file |-> Some(<<>>)],
      [dir |-> TRUE, file |-> Some(content)] }

\* SIGALRM arrives inside the success branch, after mkdir: the TimeoutError
\* leaves fetch_with_timeout with the save cut short.
AlarmDuringSave ==
    /\ alarm = "armed"
    /\ pc = "save"
    /\ alarm' = "fired"
    /\ pc' = "raised"
    /\ \E left \in InterruptedSaves(response[1].content) :
          /\ dir_made' = left.dir
          /\ file_written' = left.file
    /\ attempt_num' = 0
    /\ attempts' = <<>>
    /\ all_attempts' = <<>>
    /\ response' = None
    /\ last_sleep' = None
    /\ UNCHANGED << qt, mk, geo, bk, fr, cmd, cfg, url_count, first_url, result, faults, clock, trace >>

\* SIGALRM arrives inside fetch_with_retry's try block (lines 129-157) and
\* the TimeoutError is caught there and recorded as one more failed try:
\*  - before httpx.get is called (the logger.info of line 131): no request
\*    is made for this try, `except Exception` records unknown_error;
\*  - while httpx.get is running: `except httpx.TimeoutException` when the
\*    transport has mapped it to a read timeout, else `except Exception`;
\*  - after httpx.get has answered and attempt.status_code was stored (the
\*    logger calls of lines 136-156): `except Exception` records
\*    unknown_error beside the status, and the response is dropped.
AlarmSwallowed ==
    /\ alarm = "armed"
    /\ pc = "request"
    /\ faults < MaxFaults
    /\ faults' = faults + 1
    /\ alarm' = "fired"
    /\ \/ TryCompletesFrom([kind |-> "raise", status |-> 0, content |-> <<>>,
                            error |-> "unknown_error"],
                           Append(SubSeq(trace, 1, Len(trace) - 1),
                                  TryEvent(url_count, attempt_num)))
       \/ \E e \in {"timeout", "unknown_error"} :
             TryCompletes([kind |-> "raise", status |-> 0, content |-> <<>>, error |-> e])
       \/ \E st \in StatusCodes :
             TryCompletes([kind |-> "interrupted", status |-> st, content |-> <<>>,
                           error |-> "unknown_error"])
    /\ UNCHANGED << qt, mk, geo, bk, fr, cmd, cfg, url_count, first_url, result, dir_made,
                    file_written >>

Next ==
    \/ NextUrl
    \/ RateLimitWake
    \/ Request
    \/ BackoffWake
    \/ SaveAndReturn
    \/ ReturnFailure
    \/ AlarmRaises
    \/ AlarmDuringSave
    \/ AlarmSwallowed

Spec == Init /\ [][Next]_vars

\* The engine runs in one thread that is never suspended for good: a sleep
\* ends, httpx.get answers or raises within its request timeout, and the
\* statements between them run to the next one.
FairSpec == Spec /\ WF_vars(Next)

\* ------------------------------------------------------ what the run shows
Returned == pc = "done"
Succeeded == Returned /\ result[1].success
Failed == Returned /\ ~result[1].success

IsRequest(e) == e.kind = "request"
IsRateSleep(e) == e.kind = "rate_sleep"
IsBackoff(e) == e.kind = "backoff_sleep"
\* The HTTP requests made so far, in the order made.
Requests == SelectSeq(trace, IsRequest)
RateSleeps == SelectSeq(trace, IsRateSleep)
RequestsOf(u) == { i \in DOMAIN trace : IsRequest(trace[i]) /\ trace[i].url = u }
\* The tries (calls of fetch_with_retry) made so far, with or without an
\* HTTP request, in the order made.
IsTry(e) == e.kind \in {"request", "try"}
Tries == SelectSeq(trace, IsTry)
TriesOf(u) == { i \in DOMAIN trace : IsTry(trace[i]) /\ trace[i].url = u }
IsTryOf(e, u, k) == IsTry(e) /\ e.url = u /\ e.attempt = k

\* The classifications after which the spec lets the same URL be tried again.
Retryable(a) ==
    a.error_type \in { Some("server_error"), Some("timeout"),
                       Some("network_error"), Some("unknown_error") }
Last(seq) == seq[Len(seq)]
\* The record of a try that returned its 200 response (fetch_with_retry line 137).
Is200(a) == a.status_code = Some(200) /\ IsNone(a.error_type)

\* C1: a FetchResult with success = true has non-null data and a non-empty
\* attempts list.
C1_SuccessHasDataAndAttempts ==
    Succeeded => /\ ~IsNone(result[1].data)
                 /\ result[1].attempts # <<>>

\* A success whose payload is empty: data is b"", not None.
C1_Witness ==
    /\ Succeeded
    /\ result[1].data = Some(<<>>)
    /\ Len(result[1].attempts) >= 2

\* C2: after a try without response the same URL is tried again iff the try
\* was classified server_error, timeout, network_error or unknown_error and
\* fewer than max_attempts tries have been made; a 404 or a client_error ends
\* the per-URL loop at once.
C2_RetryIffTransient ==
    /\ \A i \in 1..(Len(attempts) - 1) : Retryable(attempts[i])
    /\ (pc \in {"request", "backoff_sleep"} /\ attempts # <<>>)
          => /\ Retryable(Last(attempts))
             /\ Len(attempts) < cfg.max_attempts
    /\ (pc \in {"loop", "rate_sleep", "done"} /\ attempts # <<>> /\ IsNone(response))
          => ~(Retryable(Last(attempts)) /\ Len(attempts) < cfg.max_attempts)

\* C3: the engine stops at the first URL for which a try returns 200: the 200
\* is the last attempt of the run and the last event of the trace, no later
\* URL is taken from the sequence, and the result returned carries that
\* response's payload, which is also what the destination file holds.
C3_StopsAtFirst200 ==
    /\ \A i \in DOMAIN all_attempts :
          Is200(all_attempts[i]) =>
             /\ i = Len(all_attempts)
             /\ all_attempts[i].url = url_count
             /\ pc \in {"save", "done"}
             /\ Last(trace) = RequestEvent(url_count, attempt_num)
             /\ ~IsNone(response)
             /\ response[1].content \in {<<>>, <<url_count>>}
             /\ Returned =>
                   /\ result = Some([data |-> Some(response[1].content),
                                     attempts |-> all_attempts, success |-> TRUE])
                   /\ file_written = Some(response[1].content)
                   /\ dir_made
    /\ Succeeded => /\ all_attempts # <<>>
                    /\ Is200(Last(all_attempts))

\* A success at the second of three URLs, after a retry.
C3_Witness ==
    /\ Succeeded
    /\ cfg.n_urls = 3
    /\ url_count = 2
    /\ Len(attempts) = 2
    /\ file_written = Some(<<2>>)

\* C4: when the engine returns without any try having got a 200, the
\* sequence is exhausted and the result has success = false and no data; the
\* attempts of a failure are the records of every try made, in the order
\* made: as many as there were tries, record i for the URL of try i, stamped
\* in increasing order.
C4_FailureCarriesWholeLog ==
    /\ (Returned /\ \A i \in DOMAIN result[1].attempts :
                       ~Is200(result[1].attempts[i]))
          => /\ Failed
             /\ url_count = cfg.n_urls
    /\ Failed =>
          /\ IsNone(result[1].data)
          /\ url_count = cfg.n_urls
          /\ Len(result[1].attempts) = Len(Tries)
          /\ \A i \in DOMAIN Tries :
                /\ result[1].attempts[i].url = Tries[i].url
                /\ result[1].attempts[i].timestamp = i - 1

\* A failure over three URLs with retries of one of them.
C4_Witness ==
    /\ Failed
    /\ cfg.n_urls = 3
    /\ Len(result[1].attempts) >= 5
    /\ result[1].attempts[2].url = 1
    /\ Last(result[1].attempts).url = 3

\* C5: a rate-limit sleep of the configured interval precedes the first try
\* of every URL after the first and nothing else; none precedes the first
\* URL; their number is the number of URLs tried, that is taken from the
\* sequence and handed to the per-URL loop, minus one (zero when none was).
C5_RateLimitBetweenUrls ==
    /\ \A i \in DOMAIN trace :
          /\ IsRateSleep(trace[i]) =>
                /\ trace[i].ms = RateLimitMs
                /\ trace[i].url >= 2
                /\ (i < Len(trace) /\ cfg.max_attempts > 0)
                      => IsTryOf(trace[i + 1], trace[i].url, 0)
          /\ (IsTry(trace[i]) /\ trace[i].attempt = 0 /\ trace[i].url >= 2)
                => /\ i > 1
                   /\ trace[i - 1] = RateSleepEvent(trace[i].url, RateLimitMs)
          /\ (IsTry(trace[i]) /\ trace[i].url = 1)
                => \A j \in 1..i : ~IsRateSleep(trace[j])
    /\ Len(RateSleeps) = Max(url_count - 1, 0)

\* A run over three URLs that ended, with its two rate-limit sleeps.
C5_Witness ==
    /\ Returned
    /\ url_count = 3
    /\ Len(RateSleeps) = 2
    /\ Len(Requests) >= 4

\* C6: between two consecutive requests for the same URL the engine sleeps
\* at least the rate-limit interval.
C6_RetrySleepsRateLimit ==
    pc = "backoff_sleep" => last_sleep[1].ms >= cfg.rate_limit

\* C7: once the overall deadline has fired the operation has failed: the
\* TimeoutError has left the engine and no FetchResult is returned.
C7_DeadlineFailsAtOnce ==
    alarm = "fired" => /\ pc = "raised"
                       /\ IsNone(result)

\* C8: the per-URL loop makes at most max_attempts tries of its URL, and the
\* list it returns holds one record per try made, in the order made.
C8_AtMostMaxAttemptsAllRecorded ==
    /\ \A u \in 1..url_count : Cardinality(TriesOf(u)) <= cfg.max_attempts
    /\ (pc \in {"loop", "save", "done"} /\ url_count >= 1) =>
          /\ Len(attempts) <= cfg.max_attempts
          /\ Len(attempts) = Cardinality(TriesOf(url_count))
          /\ \A i \in DOMAIN attempts :
                /\ attempts[i].url = url_count
                /\ attempts[i].timestamp = clock - Len(attempts) + i - 1
          /\ IsNone(response) <=> (attempts = <<>> \/ ~Is200(Last(attempts)))

\* The loop has returned no response after max_attempts = 2 tries.
C8_Witness ==
    /\ pc = "loop"
    /\ cfg.max_attempts = 2
    /\ Len(attempts) = 2
    /\ IsNone(response)
    /\ url_count = 2

\* C9: a backoff sleep comes right after the failed try k of a URL, its base
\* delay is min(initial_delay * 2^k, max_delay), the sleep taken is within
\* 20% of it, the try k is not the last one allowed, and what follows the
\* sleep is try k+1 of the same URL; the loop never ends on a sleep.
C9_BackoffBetweenTries ==
    /\ \A i \in DOMAIN trace :
          IsBackoff(trace[i]) =>
             LET k == trace[i].attempt
                 u == trace[i].url
                 grown == cfg.initial_delay * (2 ^ k)
             IN  /\ i > 1
                 /\ IsTryOf(trace[i - 1], u, k)
                 /\ trace[i].ms = IF grown < cfg.max_delay THEN grown ELSE cfg.max_delay
                 /\ k + 1 < cfg.max_attempts
                 /\ i < Len(trace) => IsTryOf(trace[i + 1], u, k + 1)
    /\ pc = "backoff_sleep" =>
          /\ IsBackoff(Last(trace))
          /\ Retryable(Last(attempts))
          /\ 5 * last_sleep[1].ms >= 4 * Last(trace).ms
          /\ 5 * last_sleep[1].ms <= 6 * Last(trace).ms
    /\ (pc \in {"loop", "rate_sleep", "save", "done"} /\ trace # <<>>)
          => ~IsBackoff(Last(trace)) \/ pc = "rate_sleep"

\* The second backoff sleep of a URL, capped by max_delay.
C9_Witness ==
    /\ pc = "backoff_sleep"
    /\ attempt_num = 1
    /\ Last(trace).ms = cfg.max_delay
    /\ cfg.initial_delay * 2 > cfg.max_delay

\* C10: a failure result comes with no file-system write: the run has made
\* no directory and has not touched the destination file.
C10_FailureWritesNothing ==
    Failed => /\ ~dir_made
              /\ IsNone(file_written)

\* A failure after several tries over two URLs.
C10_Witness ==
    /\ Failed
    /\ url_count = 2
    /\ Len(result[1].attempts) >= 3

\* C11: the destination file is written at most once in a run, and every
\* step that changes it is taken in the success branch and leaves in it the
\* whole payload of the 200 response, also when the overall timeout cuts the
\* run short.
C11_FileWrittenOnceWhole ==
    [][ /\ ~IsNone(file_written) => file_written' = file_written
        /\ file_written' # file_written =>
              /\ pc = "save"
              /\ file_written' = Some(response[1].content) ]_vars

\* C12: whatever a single HTTP try ends with (a non-200 status, a request
\* timeout, a network error, any other exception) the engine goes on with one
\* more FetchAttempt in its log, for the URL tried, carrying the status code
\* or the error class; the only exception that leaves the engine is the
\* TimeoutError of the overall deadline.
C12_TryErrorsRecordedNotRaised ==
    [][ /\ (pc' = "raised" /\ pc # "raised") =>
              /\ alarm = "armed"
              /\ alarm' = "fired"
        /\ (pc = "request" /\ pc' # "raised") =>
              /\ attempts' # <<>>
              /\ SubSeq(attempts', 1, Len(attempts)) = attempts
              /\ Len(attempts') = Len(attempts) + 1
              /\ Last(attempts').url = url_count
              /\ Last(attempts').timestamp = clock
              /\ \/ ~IsNone(Last(attempts').status_code)
                 \/ Last(attempts').error_type \in
                       { Some(e) : e \in TransportErrors }
              /\ faults' > faults =>
                    Last(attempts').error_type \in
                       { Some("server_error"), Some("client_error") }
                          \cup { Some(e) : e \in TransportErrors }
              /\ pc' \in {"loop", "save", "request", "backoff_sleep"} ]_vars

\* A run that has returned a failure with a network error, an unexpected
\* exception and a 404 in its log, the deadline never having fired.
C12_Witness ==
    /\ Failed
    /\ alarm = "armed"
    /\ \E i, j, k \in DOMAIN result[1].attempts :
          /\ result[1].attempts[i].error_type = Some("network_error")
          /\ result[1].attempts[j].error_type = Some("unknown_error")
          /\ result[1].attempts[k].status_code = Some(HttpNotFound)

\* The record of the first try of URL u in the cumulative log.
FirstAttemptOf(u) ==
    all_attempts[CHOOSE i \in DOMAIN all_attempts :
                    /\ all_attempts[i].url = u
                    /\ \A j \in 1..(i - 1) : all_attempts[j].url # u]
IsNotFound(a) == a.status_code = Some(HttpNotFound) /\ IsNone(a.error_type)
Tried(u) == \E i \in DOMAIN all_attempts : all_attempts[i].url = u
Backoffs == SelectSeq(trace, IsBackoff)

\* The run has returned after k + 1 URLs, the first try of each of the first
\* k having been answered 404 and the first try of URL k + 1 200.
NotFoundThenSuccess(k) ==
    /\ Returned
    /\ url_count = k + 1
    /\ \A u \in 1..(k + 1) : Tried(u)
    /\ \A u \in 1..k : IsNotFound(FirstAttemptOf(u))
    /\ Is200(FirstAttemptOf(k + 1))

\* C13: when each of the first k URLs answers 404 to its first try and URL
\* k+1 answers 200 to its first try, the engine returns success with the
\* payload of URL k+1, its log has exactly one attempt for each of the k+1
\* URLs in order, and it has slept the rate limit exactly k times and never
\* backed off.
C13_NotFoundThenSuccess ==
    \A k \in 0..(MaxUrls - 1) :
       NotFoundThenSuccess(k) =>
          /\ Succeeded
          /\ result[1].data = Some(response[1].content)
          /\ response[1].content \in {<<>>, <<k + 1>>}
          /\ file_written = result[1].data
          /\ Len(result[1].attempts) = k + 1
          /\ \A i \in 1..(k + 1) : result[1].attempts[i].url = i
          /\ Len(Requests) = k + 1
          /\ Len(RateSleeps) = k
          /\ \A i \in 1..k : RateSleeps[i] = RateSleepEvent(i + 1, cfg.rate_limit)
          /\ Backoffs = <<>>

\* Two URLs answered 404 and the third 200 with a payload.
C13_Witness ==
    /\ NotFoundThenSuccess(2)
    /\ result[1].data = Some(<<3>>)
    /\ cfg.max_attempts >= 2

\* The single URL of the run has answered 503 to its tries 1..n-1 and 200 to
\* try n, and the run has returned.
ServerErrorsThenSuccess(n) ==
    /\ Returned
    /\ cfg.n_urls = 1
    /\ n <= cfg.max_attempts
    /\ Len(all_attempts) >= n
    /\ \A i \in 1..(n - 1) : /\ all_attempts[i].status_code = Some(503)
                              /\ all_attempts[i].error_type = Some("server_error")
    /\ Is200(all_attempts[n])

\* C14: when a single URL answers 503 to tries 1..N-1 and 200 to try N, with
\* 1 <= N <= max_attempts, the engine returns success with exactly N
\* attempts in its log and has backed off exactly N-1 times, once after each
\* failed try, with base delays that never decrease from one to the next.
C14_ServerErrorsThenSuccess ==
    \A n \in 1..MaxAttempts :
       ServerErrorsThenSuccess(n) =>
          /\ Succeeded
          /\ Len(result[1].attempts) = n
          /\ Len(Requests) = n
          /\ Len(Backoffs) = n - 1
          /\ \A i \in 1..(n - 1) :
                /\ Backoffs[i].attempt = i - 1
                /\ Backoffs[i].ms = BackoffBase(i - 1, cfg.initial_delay, cfg.max_delay)
          /\ \A i \in 1..(n - 2) : Backoffs[i].ms <= Backoffs[i + 1].ms
          /\ RateSleeps = <<>>

\* Two 503s and then a 200: two backoff sleeps, the second longer than the
\* first and capped by max_delay.
C14_Witness ==
    /\ ServerErrorsThenSuccess(3)
    /\ Len(Backoffs) = 2
    /\ Backoffs[1].ms < Backoffs[2].ms
    /\ Backoffs[2].ms = cfg.max_delay

\* The run has returned, every URL was tried, and every try made was
\* answered 404.
OnlyNotFound ==
    /\ Returned
    /\ cfg.max_attempts >= 1
    /\ \A i \in DOMAIN all_attempts : IsNotFound(all_attempts[i])

\* C15: when every try is answered 404 the engine returns failure with no
\* data and a log as long as the URL sequence: one 404 attempt per URL, in
\* the order of the sequence, no URL tried twice and no backoff sleep.
C15_AllNotFoundFails ==
    OnlyNotFound =>
       /\ Failed
       /\ IsNone(result[1].data)
       /\ Len(result[1].attempts) = cfg.n_urls
       /\ \A i \in 1..cfg.n_urls :
             /\ result[1].attempts[i].url = i
             /\ result[1].attempts[i].status_code = Some(HttpNotFound)
       /\ Len(Requests) = cfg.n_urls
       /\ \A u \in 1..cfg.n_urls : Cardinality(RequestsOf(u)) = 1
       /\ Backoffs = <<>>

\* Three URLs, three 404s, with retries allowed.
C15_Witness ==
    /\ OnlyNotFound
    /\ cfg.n_urls = 3
    /\ cfg.max_attempts = 3
    /\ Len(result[1].attempts) = 3

\* The engine has left fetch_with_timeout, by a return or by the TimeoutError.
Terminated == pc \in {"done", "raised"}

\* The tries made so far stay within max_attempts per URL and within
\* n_urls * max_attempts in all; with max_attempts = 0 none is made, and the
\* result returned is a failure with an empty attempts list.
TriesBounded ==
    /\ \A u \in 1..cfg.n_urls : Cardinality(TriesOf(u)) <= cfg.max_attempts
    /\ Len(Tries) <= cfg.n_urls * cfg.max_attempts
    /\ cfg.max_attempts = 0 =>
          /\ Tries = <<>>
          /\ all_attempts = <<>>
          /\ Returned => result = Some([data |-> None, attempts |-> <<>>,
                                        success |-> FALSE])

\* C31: the engine terminates for every URL sequence and every sequence of
\* per-try outcomes, after at most max_attempts tries per URL and at most
\* n_urls * max_attempts tries in all; with max_attempts = 0 it makes no try
\* and returns a failure with an empty attempts list.
C31_TerminatesWithinTries == []TriesBounded /\ <>Terminated

\* C31 witness: three URLs with max_attempts = 0: the engine has gone through
\* them, sleeping between them, without a try, and returned the failure.
C31_Witness ==
    /\ Failed
    /\ cfg.max_attempts = 0
    /\ cfg.n_urls = 3
    /\ url_count = 3
    /\ Len(RateSleeps) = 2
    /\ Tries = <<>>
    /\ result[1].attempts = <<>>

\* ===================================================== the cycle resolver
\* Model of generate_qt_batch and its helpers (src/noaa_query_builder.py).
\* A datetime is [day, hour, minute] with day the number of days since
\* 1970-01-01; a string of digits is the sequence of its digits.

\* Largest forecast_interval_hours tried (1..MaxInterval).
MaxInterval == 12
\* Largest max_lookback_hours tried (0..MaxLookback).
MaxLookback == 13

\* Calendar dates of the reference times tried: the day after a leap day and
\* the first day of a year.
ReferenceDates == { <<2024, 3, 1>>, <<2024, 1, 1>> }
\* Minutes of the reference times tried.
ReferenceMinutes == {0, 59}
\* Minutes between the caller reading the clock for reference_time and
\* generate_qt_batch reading it again.
ClockLags == {0, 1}

\* The day number of the civil date y-m-d (proleptic Gregorian calendar).
DaysFromCivil(y, m, d) ==
    LET yy  == IF m <= 2 THEN y - 1 ELSE y
        era == yy \div 400
        yoe == yy - era * 400
        mp  == IF m > 2 THEN m - 3 ELSE m + 9
        doy == (153 * mp + 2) \div 5 + d - 1
        doe == yoe * 365 + yoe \div 4 - yoe \div 100 + doy
    IN  era * 146097 + doe - 719468

\* The civil date <<y, m, d>> of a day number.
CivilFromDays(z) ==
    LET zz  == z + 719468
        era == zz \div 146097
        doe == zz - era * 146097
        yoe == (doe - doe \div 1460 + doe \div 36524 - doe \div 146096) \div 365
        doy == doe - (365 * yoe + yoe \div 4 - yoe \div 100)
        mp  == (5 * doy + 2) \div 153
        d   == doy - (153 * mp + 2) \div 5 + 1
        m   == IF mp < 10 THEN mp + 3 ELSE mp - 9
        y   == yoe + era * 400
    IN  << IF m <= 2 THEN y + 1 ELSE y, m, d >>

\* The decimal digits of a natural number, most significant first.
RECURSIVE Digits(_)
Digits(n) == IF n < 10 THEN <<n>> ELSE Digits(n \div 10) \o <<n % 10>>

\* A digit string padded on the left with zeros to `width` (never cut).
RECURSIVE ZeroPad(_, _)
ZeroPad(digits, width) ==
    IF Len(digits) >= width THEN digits ELSE ZeroPad(<<0>> \o digits, width)

\* The number a digit string denotes.
RECURSIVE DigitsValue(_)
DigitsValue(digits) ==
    IF digits = <<>> THEN 0
    ELSE 10 * DigitsValue(SubSeq(digits, 1, Len(digits) - 1)) + digits[Len(digits)]

\* datetime - timedelta(hours=h), on whole datetimes.
MinusHours(dt, h) ==
    LET total == dt.day * 24 + dt.hour - h
    IN  [day |-> total \div 24, hour |-> total % 24, minute |-> dt.minute]

\* datetime + timedelta(minutes=m), for m below one hour.
PlusMinutes(dt, m) ==
    LET total == (dt.day * 24 + dt.hour) * 60 + dt.minute + m
    IN  [day |-> total \div 1440, hour |-> (total \div 60) % 24, minute |-> total % 60]

\* a < b on datetimes: the boundary left out.
StrictlyBefore(a, b) ==
    (a.day * 24 + a.hour) * 60 + a.minute < (b.day * 24 + b.hour) * 60 + b.minute

\* a <= b on datetimes
NotAfter(a, b) ==
    (a.day * 24 + a.hour) * 60 + a.minute <= (b.day * 24 + b.hour) * 60 + b.minute

\* format_date_utc: dt.strftime("%Y%m%d")
FormatDateUtc(dt_object) ==
    LET c == CivilFromDays(dt_object.day)
    IN  ZeroPad(Digits(c[1]), 4) \o ZeroPad(Digits(c[2]), 2) \o ZeroPad(Digits(c[3]), 2)

\* crop_to_hour: dt.replace(minute=0, second=0, microsecond=0)
CropToHour(dt_object) == [dt_object EXCEPT !.minute = 0]

\* The hour left as it is.
KeepHour(hour, hour_interval) == hour

\* get_latest_of_multiple: (hour // hour_interval) * hour_interval
GetLatestOfMultiple(hour, hour_interval) == (hour \div hour_interval) * hour_interval

\* get_latest_run_start: crop_to_hour(dt).replace(hour=process_start_hour)
GetLatestRunStart(dt_object, hour_interval) ==
    [CropToHour(dt_object) EXCEPT !.hour = GetLatestOfMultiple(dt_object.hour, hour_interval)]

\* build_qt: QueryTime(date_utc=format_date_utc(dt),
\*                     cycle_hour_utc=f"{get_latest_run_start(dt, qs).hour:02}")
BuildQt(dt_object, hour_interval) ==
    [date_utc |-> FormatDateUtc(dt_object),
     cycle_hour_utc |-> ZeroPad(Digits(GetLatestRunStart(dt_object, hour_interval).hour), 2)]

\* range(start, stop, step) that leaves out the last value below stop.
RECURSIVE RangeStopsEarly(_, _, _)
RangeStopsEarly(start, stop, step) ==
    IF start >= stop - 1 THEN <<>>
    ELSE <<start>> \o RangeStopsEarly(start + step, stop, step)

\* range(start, stop, step) for a positive step
RECURSIVE Range(_, _, _)
Range(start, stop, step) ==
    IF start >= stop THEN <<>> ELSE <<start>> \o Range(start + step, stop, step)

\* datetime - timedelta(hours=h) that wraps the hour and keeps the date.
MinusHoursSameDay(dt, h) == [dt EXCEPT !.hour = (dt.hour - h) % 24]

\* latest_cycle - timedelta(hours=offset) in the batch of generate_qt_batch
CycleAt(latest_cycle, offset) == MinusHours(latest_cycle, offset)

\* The anchor of generate_qt_batch (lines 258-268): the latest run start when
\* it is at least 3 hours old, else the reference date with the hour of the
\* time 6 hours before the latest run start.
LatestCycle(reference_time, now, hour_interval) ==
    LET cropped_time     == CropToHour(reference_time)
        latest_run_start == GetLatestRunStart(cropped_time, hour_interval)
    IN  IF NotAfter(MinusHours(latest_run_start, -3), now)
        THEN [cropped_time EXCEPT !.hour = latest_run_start.hour]
        ELSE [cropped_time EXCEPT !.hour = MinusHours(latest_run_start, 6).hour]

\* generate_qt_batch: one QueryTime per offset of
\* range(0, max_lookback_hours + 1, forecast_interval_hours)
GenerateQtBatch(reference_time, now, hour_interval, max_lookback) ==
    LET latest_cycle == LatestCycle(reference_time, now, hour_interval)
        offsets      == Range(0, max_lookback + 1, hour_interval)
    IN  [i \in DOMAIN offsets |-> BuildQt(CycleAt(latest_cycle, offsets[i]), hour_interval)]

\* The calls tried: a reference time, the clock read by generate_qt_batch a
\* moment later, and the two core settings.
QtInputs ==
    { [reference_time |-> [day |-> DaysFromCivil(c[1], c[2], c[3]), hour |-> h, minute |-> m],
       lag |-> l, forecast_interval_hours |-> i, max_lookback_hours |-> b] :
         c \in ReferenceDates, h \in 0..23, m \in ReferenceMinutes, l \in ClockLags,
         i \in 1..MaxInterval, b \in 0..MaxLookback }

QtNow(in) == PlusMinutes(in.reference_time, in.lag)

\* The engine is not run: it stays as constructed, with an empty URL sequence.
QtInit ==
    /\ Init
    /\ cfg.n_urls = 0
    /\ cfg.max_attempts = 0

\* The caller builds the QueryStructure with current_time = datetime.now().
QtConfigure ==
    /\ IsNone(qt)
    /\ \E in \in QtInputs : qt' = Some([in |-> in, batch |-> None, single |-> None])
    /\ UNCHANGED << engine_vars, mk, geo, bk, fr, cmd >>

\* generate_qt_batch(reference_time=qs.current_time, qs=qs) returns.
QtGenerate ==
    /\ ~IsNone(qt)
    /\ IsNone(qt[1].batch)
    /\ LET in == qt[1].in
       IN  qt' = Some([qt[1] EXCEPT !.batch =
                  Some(GenerateQtBatch(in.reference_time, QtNow(in),
                          in.forecast_interval_hours, in.max_lookback_hours))])
    /\ UNCHANGED << engine_vars, mk, geo, bk, fr, cmd >>

\* build_qt(reference_time, qs) returns.
QtBuild ==
    /\ ~IsNone(qt)
    /\ IsNone(qt[1].single)
    /\ qt' = Some([qt[1] EXCEPT !.single =
                 Some(BuildQt(qt[1].in.reference_time, qt[1].in.forecast_interval_hours))])
    /\ UNCHANGED << engine_vars, mk, geo, bk, fr, cmd >>

QtNext == QtConfigure \/ QtGenerate \/ QtBuild

QtSpec == QtInit /\ [][QtNext]_vars

\* ------------------------------------------------ what the resolver shows
QtReturned == ~IsNone(qt) /\ ~IsNone(qt[1].batch)
QtBatch == qt[1].batch[1]
QtInterval == qt[1].in.forecast_interval_hours
QtLookback == qt[1].in.max_lookback_hours
\* The naive latest cycle start of the reference time.
QtLatest == GetLatestRunStart(CropToHour(qt[1].in.reference_time), QtInterval)
\* now is less than 3 hours after the naive latest cycle start.
QtSkips == ~NotAfter(MinusHours(QtLatest, -3), QtNow(qt[1].in))

\* A QueryTime read as a timestamp: hours since 1970-01-01 00:00.
QueryTimeHours(q) ==
    LET y == DigitsValue(SubSeq(q.date_utc, 1, 4))
        m == DigitsValue(SubSeq(q.date_utc, 5, 6))
        d == DigitsValue(SubSeq(q.date_utc, 7, 8))
    IN  DaysFromCivil(y, m, d) * 24 + DigitsValue(q.cycle_hour_utc)

\* C16: recency skip: when now is less than 3 hours after the naive latest
\* cycle start of the reference time, the first QueryTime returned is the
\* cycle interval_hours before that start, by date and by hour, on the
\* previous day when the start is too early in the day.
C16_SkipAnchorsOneIntervalBack ==
    (QtReturned /\ QtSkips) =>
       LET previous == MinusHours(QtLatest, QtInterval)
       IN  QtBatch[1] = [date_utc |-> FormatDateUtc(previous),
                         cycle_hour_utc |-> ZeroPad(Digits(previous.hour), 2)]

\* C17: generate_qt_batch returns floor(max_lookback_hours / interval_hours)
\* + 1 QueryTimes, whether or not the recency skip was taken.
C17_BatchLength ==
    QtReturned => Len(QtBatch) = (QtLookback \div QtInterval) + 1

\* A batch of three after a recency skip, the lookback not being a multiple
\* of the interval.
C17_Witness ==
    /\ QtReturned
    /\ QtSkips
    /\ QtInterval = 5
    /\ QtLookback = 13
    /\ Len(QtBatch) = 3

\* Each QueryTime of the batch is exactly interval_hours before the one
\* returned just before it.
ExactlySpaced ==
    \A i \in 1..(Len(QtBatch) - 1) :
       QueryTimeHours(QtBatch[i]) - QueryTimeHours(QtBatch[i + 1]) = QtInterval

\* C18 as stated: for every interval the QueryTimes returned, read as
\* timestamps, are strictly descending and exactly interval_hours apart.
C18_ExactSpacingAnyInterval ==
    QtReturned => ExactlySpaced

\* C18: for every interval that divides 24 the QueryTimes returned, read as
\* timestamps, are strictly descending and exactly interval_hours apart, also
\* across a day, month or year boundary and after a recency skip.
C18_ExactSpacing ==
    (QtReturned /\ 24 % QtInterval = 0) => ExactlySpaced

\* A batch of 6-hourly cycles that runs into the last day of the year before.
C18_Witness ==
    /\ QtReturned
    /\ QtInterval = 6
    /\ Len(QtBatch) = 3
    /\ DigitsValue(QtBatch[1].date_utc) = 20240101
    /\ DigitsValue(QtBatch[3].date_utc) = 20231231
    /\ QtBatch[3].cycle_hour_utc = <<1, 8>>

\* The cycle hour of a QueryTime is two digits that read as a multiple of
\* the interval between 0 and 23.
CycleHourOnGrid(q, hour_interval) ==
    /\ Len(q.cycle_hour_utc) = 2
    /\ DigitsValue(q.cycle_hour_utc) \in 0..23
    /\ DigitsValue(q.cycle_hour_utc) % hour_interval = 0

\* C19: every QueryTime produced by build_qt, alone or within a batch of
\* generate_qt_batch, has a two-digit cycle hour in 0..23 that is a multiple
\* of forecast_interval_hours.
C19_CycleHourMultipleOfInterval ==
    /\ QtReturned => \A i \in DOMAIN QtBatch : CycleHourOnGrid(QtBatch[i], QtInterval)
    /\ (~IsNone(qt) /\ ~IsNone(qt[1].single)) =>
          CycleHourOnGrid(qt[1].single[1], QtInterval)

\* build_qt of 23:59 with a 5-hourly grid gives hour 20, and the batch of
\* the same call starts with the cycles 20 and 15.
C19_Witness ==
    /\ QtReturned
    /\ ~IsNone(qt[1].single)
    /\ qt[1].in.reference_time.hour = 23
    /\ qt[1].in.reference_time.minute = 59
    /\ QtInterval = 5
    /\ qt[1].single[1].cycle_hour_utc = <<2, 0>>
    /\ Len(QtBatch) >= 2
    /\ QtBatch[1].cycle_hour_utc = <<2, 0>>
    /\ QtBatch[2].cycle_hour_utc = <<1, 5>>

\* Minutes from the epoch to a datetime.
MinutesOf(dt) == (dt.day * 24 + dt.hour) * 60 + dt.minute

\* The largest multiple of the interval that is not above the hour.
FlooredHour(hour, hour_interval) ==
    CHOOSE k \in 0..hour : k % hour_interval = 0 /\ hour - k < hour_interval

\* Minutes from the latest cycle start of the reference time to the clock
\* read by generate_qt_batch.
QtLatestAge ==
    LET reference_time == qt[1].in.reference_time
        started == [reference_time EXCEPT
                      !.hour = FlooredHour(reference_time.hour, QtInterval),
                      !.minute = 0]
    IN  MinutesOf(QtNow(qt[1].in)) - MinutesOf(started)

\* C28: no-skip case: when the latest cycle start at or before the reference
\* time is at least 3 hours old (exactly 3 hours included), the first
\* QueryTime returned is that cycle: the date of the reference time and its
\* hour floored to the interval.
C28_NoSkipStartsAtLatestCycle ==
    (QtReturned /\ QtLatestAge >= 180) =>
       /\ Len(QtBatch) >= 1
       /\ QtBatch[1] =
            [date_utc |-> FormatDateUtc(qt[1].in.reference_time),
             cycle_hour_utc |->
                ZeroPad(Digits(FlooredHour(qt[1].in.reference_time.hour, QtInterval)), 2)]

\* C28 witness: at 09:00 sharp with cycles every 6 hours the 06:00 cycle is
\* exactly 3 hours old and heads the batch.
C28_Witness ==
    /\ QtReturned
    /\ QtLatestAge = 180
    /\ QtInterval = 6
    /\ qt[1].in.reference_time.hour = 9
    /\ QtBatch[1] = [date_utc |-> <<2, 0, 2, 4, 0, 3, 0, 1>>, cycle_hour_utc |-> <<0, 6>>]

\* C30: every QueryTime returned by generate_qt_batch is a cycle start at or
\* before the reference time, for every reference time of the day, the hours
\* 00:00-02:59 included.
C30_NoCycleInTheFuture ==
    QtReturned =>
       \A i \in DOMAIN QtBatch :
          QueryTimeHours(QtBatch[i]) * 60 <= MinutesOf(qt[1].in.reference_time)

\* ========================================================== the mask codec
\* Model of build_new_mask, get_binary_mask_from_hex and reveal_masked_values
\* (src/noaa_query_builder.py).  A string is the sequence of its characters.

\* Longest list of keys tried.
MaxKeys == 4
\* The names the keys are drawn from; a list of keys holds no name twice.
KeyNames == {"TMP", "UGRD", "VGRD", "PRMSL"}

HexChars == << "0", "1", "2", "3", "4", "5", "6", "7",
               "8", "9", "a", "b", "c", "d", "e", "f" >>

\* The digits as int() also reads them: letters in upper case.
UpperHexChars == << "0", "1", "2", "3", "4", "5", "6", "7",
                    "8", "9", "A", "B", "C", "D", "E", "F" >>

\* The value of one digit character, in either case.
CharValue(ch) ==
    (CHOOSE i \in DOMAIN HexChars : HexChars[i] = ch \/ UpperHexChars[i] = ch) - 1

\* The value of a string of digits in the given base.
RECURSIVE DigitStringValue(_, _)
DigitStringValue(str, base) ==
    IF str = <<>> THEN 0
    ELSE base * DigitStringValue(SubSeq(str, 1, Len(str) - 1), base)
            + CharValue(str[Len(str)])

\* The digits of a natural number in the given base, without leading zeros.
RECURSIVE DigitString(_, _)
DigitString(n, base) ==
    IF n < base THEN << HexChars[n + 1] >>
    ELSE DigitString(n \div base, base) \o << HexChars[(n % base) + 1] >>

\* int(str, 2): None stands for the ValueError raised for an empty string.
IntBase2(str) == IF str = <<>> THEN None ELSE Some(DigitStringValue(str, 2))

\* hex(n)
Hex(n) == << "0", "x" >> \o DigitString(n, 16)

\* int(hex_mask, base=16): the "0x" or "0X" prefix is optional, and the
\* digits are read in either case.
IntBase16(hex_mask) ==
    IF Len(hex_mask) >= 2 /\ SubSeq(hex_mask, 1, 2) \in { << "0", "x" >>, << "0", "X" >> }
    THEN DigitStringValue(SubSeq(hex_mask, 3, Len(hex_mask)), 16)
    ELSE DigitStringValue(hex_mask, 16)

\* str.ljust(width, fill): pads on the right.
RECURSIVE LJust(_, _, _)
LJust(str, width, fill) ==
    IF Len(str) >= width THEN str ELSE LJust(str \o <<fill>>, width, fill)

\* str.rjust(width, fill): pads on the left, never cuts.
RECURSIVE RJust(_, _, _)
RJust(str, width, fill) ==
    IF Len(str) >= width THEN str ELSE RJust(<<fill>> \o str, width, fill)

\* build_new_mask: None when int("", 2) raises ValueError.
BuildNewMask(all_values, selected_values) ==
    LET raw_mask == [i \in DOMAIN all_values |->
                        IF all_values[i] \in selected_values THEN "1" ELSE "0"]
        number   == IntBase2(raw_mask)
    IN  IF IsNone(number) THEN None ELSE Some(Hex(number[1]))

\* get_binary_mask_from_hex
GetBinaryMaskFromHex(hex_mask, mask_length) ==
    LET binary_string == RJust(DigitString(IntBase16(hex_mask), 2), mask_length, "0")
    IN  [i \in DOMAIN binary_string |-> CharValue(binary_string[i])]

\* [key for key, mask in zip(all_values, binary_mask) if mask]
RECURSIVE ZipSelect(_, _)
ZipSelect(all_values, binary_mask) ==
    IF all_values = <<>> \/ binary_mask = <<>> THEN <<>>
    ELSE (IF binary_mask[1] # 0 THEN << all_values[1] >> ELSE <<>>)
            \o ZipSelect(Tail(all_values), Tail(binary_mask))

\* reveal_masked_values
RevealMaskedValues(all_values, hex_mask) ==
    ZipSelect(all_values, GetBinaryMaskFromHex(hex_mask, Len(all_values)))

\* The characters of a key name or prefix.
Spell(name) ==
    CASE name = "TMP"   -> << "T", "M", "P" >>
      [] name = "UGRD"  -> << "U", "G", "R", "D" >>
      [] name = "VGRD"  -> << "V", "G", "R", "D" >>
      [] name = "PRMSL" -> << "P", "R", "M", "S", "L" >>
      [] name = "var_"  -> << "v", "a", "r", "_" >>
      [] name = "on"    -> << "o", "n" >>

\* Characters urllib.parse.quote_plus leaves as they are.
Unreserved ==
    { "A", "B", "C", "D", "E", "F", "G", "H", "I", "J", "K", "L", "M", "N", "O",
      "P", "Q", "R", "S", "T", "U", "V", "W", "X", "Y", "Z",
      "a", "b", "c", "d", "e", "f", "g", "h", "i", "j", "k", "l", "m", "n", "o",
      "p", "q", "r", "s", "t", "u", "v", "w", "x", "y", "z",
      "0", "1", "2", "3", "4", "5", "6", "7", "8", "9", "_", ".", "-", "~" }

\* quote_plus of one character: a space becomes "+", a reserved character
\* its percent escape.
QuoteChar(ch) ==
    IF ch \in Unreserved THEN << ch >>
    ELSE IF ch = " " THEN << "+" >>
    ELSE IF ch = "/" THEN << "%", "2", "F" >>
    ELSE IF ch = "=" THEN << "%", "3", "D" >>
    ELSE IF ch = "&" THEN << "%", "2", "6" >>
    ELSE << "%", "3", "F" >>

RECURSIVE QuotePlus(_)
QuotePlus(str) ==
    IF str = <<>> THEN <<>> ELSE QuoteChar(str[1]) \o QuotePlus(Tail(str))

\* urllib.parse.urlencode of a list of (key, value) pairs
RECURSIVE UrlEncode(_)
UrlEncode(pairs) ==
    IF pairs = <<>> THEN <<>>
    ELSE LET one == QuotePlus(pairs[1][1]) \o << "=" >> \o QuotePlus(pairs[1][2])
         IN  IF Len(pairs) = 1 THEN one
             ELSE one \o << "&" >> \o UrlEncode(Tail(pairs))

\* get_url_encoded_keys
GetUrlEncodedKeys(all_keys, hex_mask, prefix) ==
    LET binary_mask == GetBinaryMaskFromHex(hex_mask, Len(all_keys))
        chosen      == ZipSelect(all_keys, binary_mask)
    IN  UrlEncode([i \in DOMAIN chosen |->
                      << Spell(prefix) \o Spell(chosen[i]), Spell("on") >>])

\* The digits of a natural number in base 16 with the letters in upper case.
RECURSIVE UpperDigitString(_)
UpperDigitString(n) ==
    IF n < 16 THEN << UpperHexChars[n + 1] >>
    ELSE UpperDigitString(n \div 16) \o << UpperHexChars[(n % 16) + 1] >>

\* The hex masks tried: every value of up to MaxKeys + 1 bits, so that some
\* need more bits than there are keys, written as hex() writes it ("0xf"),
\* with upper-case digits ("0xF") and all in upper case ("0XF").
HexMasks ==
    LET values == 0..(2 * Pow2(MaxKeys) - 1)
    IN  { Hex(v) : v \in values }
           \cup { << "0", "x" >> \o UpperDigitString(v) : v \in values }
           \cup { << "0", "X" >> \o UpperDigitString(v) : v \in values }

\* The lists of up to MaxKeys different names.
KeyLists ==
    { ks \in UNION { [1..n -> KeyNames] : n \in 0..MaxKeys } :
         \A i, j \in DOMAIN ks : i # j => ks[i] # ks[j] }

\* The engine and the resolver are not run.
MkInit ==
    /\ QtInit
    /\ IsNone(qt)

\* A caller picks a list of keys and a subset of them.
MkChoose ==
    /\ IsNone(mk)
    /\ \E ks \in KeyLists :
          \E sel \in SUBSET { ks[i] : i \in DOMAIN ks } :
             mk' = Some([all_values |-> ks, selected_values |-> sel,
                         stage |-> "chosen", hex_mask |-> None, revealed |-> None,
                         binary_mask |-> None, url_encoded |-> None])
    /\ UNCHANGED << engine_vars, qt, geo, bk, fr, cmd >>

\* build_new_mask(all_values, selected_values) returns or raises.
MkBuildNewMask ==
    /\ ~IsNone(mk)
    /\ mk[1].stage = "chosen"
    /\ LET mask == BuildNewMask(mk[1].all_values, mk[1].selected_values)
       IN  mk' = Some([mk[1] EXCEPT !.hex_mask = mask,
                          !.stage = IF IsNone(mask) THEN "raised" ELSE "encoded"])
    /\ UNCHANGED << engine_vars, qt, geo, bk, fr, cmd >>

\* reveal_masked_values(all_values, hex_mask) returns.
MkRevealMaskedValues ==
    /\ ~IsNone(mk)
    /\ mk[1].stage = "encoded"
    /\ mk' = Some([mk[1] EXCEPT
                     !.revealed = Some(RevealMaskedValues(mk[1].all_values, mk[1].hex_mask[1])),
                     !.stage = "revealed"])
    /\ UNCHANGED << engine_vars, qt, geo, bk, fr, cmd >>

\* A configured mask is decoded for a list of keys: get_binary_mask_from_hex,
\* reveal_masked_values and get_url_encoded_keys return.
MkDecode ==
    /\ IsNone(mk)
    /\ \E ks \in KeyLists, hm \in HexMasks :
          mk' = Some([all_values |-> ks, selected_values |-> {},
                      stage |-> "decoded", hex_mask |-> Some(hm),
                      revealed |-> Some(RevealMaskedValues(ks, hm)),
                      binary_mask |-> Some(GetBinaryMaskFromHex(hm, Len(ks))),
                      url_encoded |-> Some(GetUrlEncodedKeys(ks, hm, "var_"))])
    /\ UNCHANGED << engine_vars, qt, geo, bk, fr, cmd >>

MkNext == MkChoose \/ MkBuildNewMask \/ MkRevealMaskedValues \/ MkDecode

MaskSpec == MkInit /\ [][MkNext]_vars

\* The members of the chosen subset in the order they have in the keys.
SelectedInOrder ==
    LET IsSelected(key) == key \in mk[1].selected_values
    IN  SelectSeq(mk[1].all_values, IsSelected)

\* C20: mask round trip: for any list of keys, the empty list included, and
\* any subset of them, once build_new_mask and reveal_masked_values have run
\* (to a return or to a raise) the values revealed are the members of the
\* subset in the order they have in the list.
C20_MaskRoundTrip ==
    (~IsNone(mk) /\ mk[1].stage \in {"revealed", "raised"}) =>
       mk[1].revealed = Some(SelectedInOrder)

\* ------------------------------------------------- what the decoder shows
MkDecoded == ~IsNone(mk) /\ mk[1].stage = "decoded"
MkKeys == mk[1].all_values
MkValue == IntBase16(mk[1].hex_mask[1])

\* The number of binary digits of a natural number (1 for 0).
RECURSIVE BitLength(_)
BitLength(n) == IF n < 2 THEN 1 ELSE 1 + BitLength(n \div 2)

\* Bit i, counted from the most-significant end, of the binary form of v
\* left-padded with zeros to n digits.
BitFromTop(v, n, i) ==
    LET width == Max(n, BitLength(v))
    IN  (v \div (2 ^ (width - i))) % 2

\* C21: get_binary_mask_from_hex(hex_mask, mask_length) returns exactly
\* mask_length elements, each 0 or 1, for every mask and every length, also
\* when the value of the mask needs more than mask_length bits.
C21_MaskHasGivenLength ==
    MkDecoded =>
       /\ Len(mk[1].binary_mask[1]) = Len(MkKeys)
       /\ \A i \in DOMAIN mk[1].binary_mask[1] : mk[1].binary_mask[1][i] \in {0, 1}

\* The keys a mask selects, by the arithmetic of its bits.
SelectedByBits ==
    LET IsOn(i) == BitFromTop(MkValue, Len(MkKeys), i) = 1
        RECURSIVE From(_)
        From(i) == IF i > Len(MkKeys) THEN <<>>
                   ELSE (IF IsOn(i) THEN << MkKeys[i] >> ELSE <<>>) \o From(i + 1)
    IN  From(1)

\* The text "var_NAME=on" for each name of a list, joined by "&".
RECURSIVE OnPairs(_)
OnPairs(names) ==
    IF names = <<>> THEN <<>>
    ELSE LET one == Spell("var_") \o Spell(names[1]) \o << "=", "o", "n" >>
         IN  IF Len(names) = 1 THEN one ELSE one \o << "&" >> \o OnPairs(Tail(names))

\* C22: decoding a mask selects item i of all_keys iff bit i of the mask is
\* 1, counting from the most-significant end of its binary form left-padded
\* to len(all_keys); reveal_masked_values returns the selected items in
\* all_keys order and get_url_encoded_keys one prefix+name=on pair for each
\* of them and none for the others.
C22_DecodeSelectsByBit ==
    MkDecoded =>
       /\ mk[1].revealed = Some(SelectedByBits)
       /\ mk[1].url_encoded = Some(OnPairs(SelectedByBits))

\* Three keys under the mask 0x5: the first and the third are selected.
C22_Witness ==
    /\ MkDecoded
    /\ Len(MkKeys) = 3
    /\ mk[1].hex_mask = Some(<< "0", "x", "5" >>)
    /\ mk[1].revealed = Some(<< MkKeys[1], MkKeys[3] >>)
    /\ Len(mk[1].url_encoded[1]) > 16

\* ================================================ the geographic utilities
\* Model of clamp_latitude, normalize_longitude, calculate_latitude_bounds
\* and calculate_longitude_bounds (src/noaa_query_builder.py).
\*
\* A float is [h, t]: h half degrees plus t tiny units of 5e-21 degrees, with
\* t # 0 only when h = 0.  Multiples of half a degree of this size are exact
\* doubles and their sums are exact; a tiny amount added to a value of half
\* a degree or more is lost to rounding, as it is far below half an ulp.

\* Centers tried are the multiples of 5 degrees up to 5 * MaxGeoSteps either
\* side of zero, with the neighbours of the range ends.
MaxGeoSteps == 145

Float(h, t) == [h |-> h, t |-> t]
\* n whole degrees
Degrees(n) == Float(2 * n, 0)

\* An exact sum rounded to the nearest double.
RoundToFloat(h, t) == IF h # 0 THEN Float(h, 0) ELSE Float(0, t)

FloatAdd(a, b) == RoundToFloat(a.h + b.h, a.t + b.t)
FloatSub(a, b) == RoundToFloat(a.h - b.h, a.t - b.t)
\* a / 2, for an even number of half degrees and of tiny units
FloatHalf(a) == Float(a.h \div 2, a.t \div 2)
FloatLess(a, b) == a.h < b.h \/ (a.h = b.h /\ a.t < b.t)
FloatLessEq(a, b) == a = b \/ FloatLess(a, b)

\* Python's min(a, b) and max(a, b): the first argument unless the second is
\* strictly smaller (larger).
PyMin(a, b) == IF FloatLess(b, a) THEN b ELSE a
PyMax(a, b) == IF FloatLess(a, b) THEN b ELSE a

\* Python's float x % 360: fmod, then the divisor added when the remainder
\* is negative, the sum rounded.
FloatMod360(x) ==
    IF x.h # 0 THEN Float(x.h % 720, 0)
    ELSE IF x.t >= 0 THEN x
    ELSE RoundToFloat(720, x.t)

\* The clamp at the north pole alone.
ClampNorthOnly(latitude) == PyMin(Degrees(90), latitude)

\* clamp_latitude: max(-90.0, min(90.0, latitude))
ClampLatitude(latitude) == PyMax(Degrees(-90), PyMin(Degrees(90), latitude))

\* normalize_longitude
NormalizeLongitude(longitude) ==
    LET normalized == FloatMod360(longitude)
    IN  IF ~FloatLess(normalized, Degrees(0)) THEN normalized
        ELSE FloatAdd(normalized, Degrees(360))

\* calculate_latitude_bounds without the clamp.
LatitudeBoundsUnclamped(center_lat, height_degrees) ==
    << FloatSub(center_lat, FloatHalf(height_degrees)),
       FloatAdd(center_lat, FloatHalf(height_degrees)) >>

\* calculate_latitude_bounds
CalculateLatitudeBounds(center_lat, height_degrees) ==
    LET half_height == FloatHalf(height_degrees)
        min_lat     == ClampLatitude(FloatSub(center_lat, half_height))
        max_lat     == ClampLatitude(FloatAdd(center_lat, half_height))
    IN  << min_lat, max_lat >>

\* calculate_longitude_bounds
CalculateLongitudeBounds(center_lon, width_degrees) ==
    LET normalized_longitude == NormalizeLongitude(center_lon)
        half_width           == FloatHalf(width_degrees)
        min_lon == NormalizeLongitude(FloatSub(normalized_longitude, half_width))
        max_lon == NormalizeLongitude(FloatAdd(normalized_longitude, half_width))
    IN  << min_lon, max_lon >>

\* Latitudes and longitudes tried: whole degrees, and amounts of 5e-21 and
\* 1e-20 degrees either side of zero.
GeoCenters ==
    { Degrees(5 * k) : k \in (-MaxGeoSteps)..MaxGeoSteps }
    \cup { Degrees(n) : n \in {-361, -359, -91, -89, -1, 1, 89, 91, 359, 361} }
    \cup { Float(0, t) : t \in {-2, -1, 1, 2} }
\* Heights and widths tried, none negative.
GeoExtents ==
    { Degrees(n) : n \in {0, 2, 10, 20, 180, 360, 400} } \cup { Float(0, 2), Float(0, 4) }

\* The engine, the resolver and the codec are not run.
GeoInit ==
    /\ MkInit
    /\ IsNone(mk)

GeoCall(fn, x, y, out) == Some([fn |-> fn, x |-> x, y |-> y, out |-> out])

\* clamp_latitude(latitude) returns.
GeoClampLatitude ==
    /\ IsNone(geo)
    /\ \E x \in GeoCenters :
          geo' = GeoCall("clamp_latitude", x, Degrees(0), << ClampLatitude(x) >>)
    /\ UNCHANGED << engine_vars, qt, mk, bk, fr, cmd >>

\* normalize_longitude(longitude) returns.
GeoNormalizeLongitude ==
    /\ IsNone(geo)
    /\ \E x \in GeoCenters :
          geo' = GeoCall("normalize_longitude", x, Degrees(0), << NormalizeLongitude(x) >>)
    /\ UNCHANGED << engine_vars, qt, mk, bk, fr, cmd >>

\* calculate_latitude_bounds(center_lat, height_degrees) returns.
GeoLatitudeBounds ==
    /\ IsNone(geo)
    /\ \E x \in GeoCenters, y \in GeoExtents :
          geo' = GeoCall("calculate_latitude_bounds", x, y, CalculateLatitudeBounds(x, y))
    /\ UNCHANGED << engine_vars, qt, mk, bk, fr, cmd >>

\* calculate_longitude_bounds(center_lon, width_degrees) returns.
GeoLongitudeBounds ==
    /\ IsNone(geo)
    /\ \E x \in GeoCenters, y \in GeoExtents :
          geo' = GeoCall("calculate_longitude_bounds", x, y, CalculateLongitudeBounds(x, y))
    /\ UNCHANGED << engine_vars, qt, mk, bk, fr, cmd >>

GeoNext ==
    \/ GeoClampLatitude
    \/ GeoNormalizeLongitude
    \/ GeoLatitudeBounds
    \/ GeoLongitudeBounds

GeoSpec == GeoInit /\ [][GeoNext]_vars

\* ------------------------------------------- what the utilities show
GeoDid(fn) == ~IsNone(geo) /\ geo[1].fn = fn
InLatitudeRange(v) == FloatLessEq(Degrees(-90), v) /\ FloatLessEq(v, Degrees(90))
\* 0 <= v < 360
InLongitudeRange(v) == FloatLessEq(Degrees(0), v) /\ FloatLess(v, Degrees(360))

\* C23: clamp_latitude returns a value in [-90, 90]: its input when that is
\* in [-90, 90], the ends included, 90 for an input above 90 and -90 for an
\* input below -90.
C23_ClampLatitude ==
    GeoDid("clamp_latitude") =>
       LET x == geo[1].x
           out == geo[1].out[1]
       IN  /\ InLatitudeRange(out)
           /\ InLatitudeRange(x) => out = x
           /\ FloatLess(Degrees(90), x) => out = Degrees(90)
           /\ FloatLess(x, Degrees(-90)) => out = Degrees(-90)

\* 91 degrees north is clamped to the pole.
C23_Witness ==
    /\ GeoDid("clamp_latitude")
    /\ geo[1].x = Degrees(91)
    /\ geo[1].out = << Degrees(90) >>

\* C24: normalize_longitude returns a value in [0, 360) for every input, its
\* input when that is in [0, 360), and the same value for x and x + 360k
\* (compared where x + 360k is itself exact).
C24_NormalizeLongitude ==
    GeoDid("normalize_longitude") =>
       LET x == geo[1].x
           out == geo[1].out[1]
       IN  /\ InLongitudeRange(out)
           /\ InLongitudeRange(x) => out = x
           /\ x.t = 0 => \A k \in -2..2 :
                 NormalizeLongitude(FloatAdd(x, Degrees(360 * k))) = out

\* C25: calculate_latitude_bounds returns the clamped ends of the box: both
\* in [-90, 90], the lower no greater than the upper for a non-negative
\* height, each the exact end center -/+ height/2 when that is in range and
\* the pole otherwise (never wrapped); center 85 and height 20 give (75, 90),
\* center -85 and height 20 give (-90, -75).
C25_LatitudeBounds ==
    GeoDid("calculate_latitude_bounds") =>
       LET c == geo[1].x
           half == FloatHalf(geo[1].y)
           lo == FloatSub(c, half)
           hi == FloatAdd(c, half)
           out == geo[1].out
       IN  /\ InLatitudeRange(out[1]) /\ InLatitudeRange(out[2])
           /\ FloatLessEq(out[1], out[2])
           /\ out[1] = (IF FloatLess(lo, Degrees(-90)) THEN Degrees(-90)
                        ELSE IF FloatLess(Degrees(90), lo) THEN Degrees(90) ELSE lo)
           /\ out[2] = (IF FloatLess(hi, Degrees(-90)) THEN Degrees(-90)
                        ELSE IF FloatLess(Degrees(90), hi) THEN Degrees(90) ELSE hi)
           /\ (c = Degrees(85) /\ geo[1].y = Degrees(20))
                 => out = << Degrees(75), Degrees(90) >>
           /\ (c = Degrees(-85) /\ geo[1].y = Degrees(20))
                 => out = << Degrees(-90), Degrees(-75) >>

\* The box of height 20 around 85 north ends at the pole.
C25_Witness ==
    /\ GeoDid("calculate_latitude_bounds")
    /\ geo[1].x = Degrees(85)
    /\ geo[1].y = Degrees(20)
    /\ geo[1].out = << Degrees(75), Degrees(90) >>

\* C26: calculate_longitude_bounds returns both bounds in [0, 360), the
\* ends center -/+ width/2 taken modulo 360 (so the left bound may exceed
\* the right one); center 350 and width 20 give (340, 0), center 0 and width
\* 10 give (355, 5).
C26_LongitudeBounds ==
    GeoDid("calculate_longitude_bounds") =>
       LET c == geo[1].x
           half == FloatHalf(geo[1].y)
           out == geo[1].out
       IN  /\ InLongitudeRange(out[1]) /\ InLongitudeRange(out[2])
           /\ c.t = 0 /\ half.t = 0 =>
                 /\ out[1] = Float((c.h - half.h) % 720, 0)
                 /\ out[2] = Float((c.h + half.h) % 720, 0)
           /\ (c = Degrees(350) /\ geo[1].y = Degrees(20))
                 => out = << Degrees(340), Degrees(0) >>
           /\ (c = Degrees(0) /\ geo[1].y = Degrees(10))
                 => out = << Degrees(355), Degrees(5) >>

\* ====================================================== the fetch command
\* Model of the files the fetch command touches (src/fetch_forecast.py):
\* the target path, and the backups create_backup_file keeps beside it.  The
\* content of a file is the number of the download that wrote it (0 for a
\* file found at the start) and whether the write was whole; a backup file
\* is known by the NN of its name {original}.{NN}{extension}.

\* Largest settings.backup.max_count tried (0..MaxBackups).
MaxBackups == 3
\* Most fetch commands run one after the other.
MaxCommands == 5

\* What a file holds.
Content(download, whole) == [download |-> download, whole |-> whole]

\* The decimal digits as characters.
DecimalChars == << "0", "1", "2", "3", "4", "5", "6", "7", "8", "9" >>

\* f"{n:02d}": the sign, then the digits padded with zeros to a width of 2
\* in all.
Format02d(n) ==
    LET digits == IF n < 0 THEN ZeroPad(Digits(-n), 1) ELSE ZeroPad(Digits(n), 2)
        text == [i \in 1..Len(digits) |-> DecimalChars[digits[i] + 1]]
    IN  IF n < 0 THEN << "-" >> \o text ELSE text

\* The while loop of create_backup_file from backup_num = n on: the first
\* number below max_count whose backup path does not exist, else (the
\* loop's else clause) max_count - 1.
RECURSIVE FindBackupNum(_, _, _)
FindBackupNum(n, max_count, names) ==
    IF n < max_count
    THEN IF Format02d(n) \notin names THEN n
         ELSE FindBackupNum(n + 1, max_count, names)
    ELSE max_count - 1

\* create_backup_file: the backups after original_path.rename(backup_path),
\* which replaces backup_path when it exists.
CreateBackupFile(files, content, max_count) ==
    LET backup_path == Format02d(FindBackupNum(0, max_count, DOMAIN files))
    IN  [name \in DOMAIN files \cup { backup_path } |->
            IF name = backup_path THEN content ELSE files[name]]

\* The test before the fetch with the existing file never backed up.
BacksUpNever(file_exists) == FALSE

\* "Create backup before overwriting": if file_exists
BacksUp(file_exists) == file_exists

\* The command goes on to the download (lines 497-529): not in check-only
\* mode, and the file is absent, or forced, or the user answers "download".
Proceeds(file_exists, check_only, force, new_only, choice) ==
    /\ ~check_only
    /\ (file_exists /\ ~force) => (~new_only /\ choice = "download")

\* What fetch_with_timeout can leave at the target path: nothing new (a
\* failure, or the timeout raised before the write), the payload of download
\* number v, or a file cut short by the timeout.
FetchOutcomes(v) ==
    { [ended |-> "failure", written |-> None],
      [ended |-> "success", written |-> Some(Content(v, TRUE))],
      [ended |-> "raised", written |-> None],
      [ended |-> "raised", written |-> Some(Content(v, FALSE))],
      [ended |-> "raised", written |-> Some(Content(v, TRUE))] }

\* The engine, the resolver, the codec and the utilities are not run.
BkInit ==
    /\ GeoInit
    /\ IsNone(geo)

\* The storage directory as the first command finds it.
BkSetup ==
    /\ IsNone(bk)
    /\ \E mc \in 0..MaxBackups, t \in { None, Some(Content(0, TRUE)) } :
          bk' = Some([max_count |-> mc, target |-> t, files |-> << >>,
                      pc |-> "start", previous |-> None, requested |-> FALSE,
                      ended |-> "", downloads |-> 0, commands |-> 1])
    /\ UNCHANGED << engine_vars, qt, mk, geo, fr, cmd >>

\* fetch, lines 486-529: the target is looked up and the command either
\* exits without a download or goes on.
BkDecide ==
    /\ ~IsNone(bk)
    /\ bk[1].pc = "start"
    /\ \E check_only, force, new_only \in BOOLEAN,
          choice \in {"download", "skip", "cancel"} :
          LET file_exists == ~IsNone(bk[1].target)
              goes_on == Proceeds(file_exists, check_only, force, new_only, choice)
          IN  bk' = Some([bk[1] EXCEPT
                     !.previous = bk[1].target,
                     !.requested = FALSE,
                     !.ended = IF goes_on THEN "" ELSE "exit",
                     !.pc = IF ~goes_on THEN "ended"
                            ELSE IF BacksUp(file_exists) THEN "backup" ELSE "fetch"])
    /\ UNCHANGED << engine_vars, qt, mk, geo, fr, cmd >>

\* fetch, lines 531-534: create_backup_file(output_path) renames the target.
BkBackup ==
    /\ ~IsNone(bk)
    /\ bk[1].pc = "backup"
    /\ bk' = Some([bk[1] EXCEPT
                     !.files = CreateBackupFile(bk[1].files, bk[1].target[1],
                                                bk[1].max_count),
                     !.target = None,
                     !.pc = "fetch"])
    /\ UNCHANGED << engine_vars, qt, mk, geo, fr, cmd >>

\* fetch, lines 536-556: fetch_with_timeout makes its requests and returns
\* or raises; the command ends.
BkFetch ==
    /\ ~IsNone(bk)
    /\ bk[1].pc = "fetch"
    /\ \E o \in FetchOutcomes(bk[1].downloads + 1) :
          bk' = Some([bk[1] EXCEPT
                     !.requested = TRUE,
                     !.downloads = bk[1].downloads + 1,
                     !.target = IF IsNone(o.written) THEN bk[1].target ELSE o.written,
                     !.ended = o.ended,
                     !.pc = "ended"])
    /\ UNCHANGED << engine_vars, qt, mk, geo, fr, cmd >>

\* The command is run again.
BkNextCommand ==
    /\ ~IsNone(bk)
    /\ bk[1].pc = "ended"
    /\ bk[1].commands < MaxCommands
    /\ bk' = Some([bk[1] EXCEPT !.pc = "start", !.commands = bk[1].commands + 1])
    /\ UNCHANGED << engine_vars, qt, mk, geo, fr, cmd >>

BkNext ==
    \/ BkSetup
    \/ BkDecide
    \/ BkBackup
    \/ BkFetch
    \/ BkNextCommand

BackupSpec == BkInit /\ [][BkNext]_vars

\* ------------------------------------------------ claims on the backups

\* create_backup_file has just run.
BkBackedUp == ~IsNone(bk) /\ ~IsNone(bk') /\ bk[1].pc = "backup" /\ bk'[1].pc = "fetch"

\* The slots 00..max_count-1 that hold no backup.
FreeSlots(b) == { n \in 0..(b.max_count - 1) : Format02d(n) \notin DOMAIN b.files }

\* The backups with the file `content` put under `name`, the others kept.
WithBackup(files, name, content) ==
    [f \in DOMAIN files \cup { name } |-> IF f = name THEN content ELSE files[f]]

\* C27: create_backup_file puts the file in the lowest-numbered free slot of
\* 00..max_count-1; it replaces an existing backup only when all max_count
\* slots are taken, and then the one in slot max_count-1; afterwards at most
\* max_count backups exist and the original path holds no file.
C27_BackupRotation ==
    [][ BkBackedUp =>
          LET b == bk[1]
              free == FreeSlots(b)
              lowest == CHOOSE n \in free : \A m \in free : n <= m
              last == Format02d(b.max_count - 1)
          IN  /\ free # {} =>
                   bk'[1].files = WithBackup(b.files, Format02d(lowest), b.target[1])
              /\ free = {} =>
                   /\ last \in DOMAIN b.files
                   /\ bk'[1].files = WithBackup(b.files, last, b.target[1])
              /\ Cardinality(DOMAIN bk'[1].files) <= b.max_count
              /\ IsNone(bk'[1].target) ]_vars

\* The contents of the backup files.
BackedUp(b) == { b.files[name] : name \in DOMAIN b.files }

\* C29: when the fetch command goes on to a download while the target file
\* exists, that file is a backup before the first HTTP request is made, and
\* when the command has ended, by success, failure or timeout, its content is
\* still on disk, at the target path or in a backup.
C29_PreviousContentKept ==
    (~IsNone(bk) /\ ~IsNone(bk[1].previous)) =>
       LET b == bk[1]
       IN  /\ (b.pc = "fetch" /\ ~b.requested) =>
                /\ IsNone(b.target)
                /\ b.previous[1] \in BackedUp(b)
           /\ (b.pc = "ended" /\ b.requested) =>
                \/ b.target = b.previous
                \/ b.previous[1] \in BackedUp(b)

\* C29 witness: the second download over an existing file is cut short by the
\* timeout; the file it would have replaced is the backup 01.
C29_Witness ==
    /\ ~IsNone(bk)
    /\ bk[1].pc = "ended"
    /\ bk[1].requested
    /\ bk[1].ended = "raised"
    /\ bk[1].max_count = 2
    /\ bk[1].previous = Some(Content(1, TRUE))
    /\ bk[1].target = Some(Content(2, FALSE))
    /\ DOMAIN bk[1].files = { <<"0", "0">>, <<"0", "1">> }
    /\ bk[1].files[<<"0", "1">>] = Content(1, TRUE)

\* ================================================= one try: fetch_with_retry
\* One call of fetch_with_retry on its own, with answers the engine model
\* leaves out: informational, other 2xx, redirect, and the codes next to the
\* server_error threshold.

\* Status codes httpx.get is made to answer with.
TriedStatusCodes == {100, 200, 204, 302, 400, 403, 404, 499, 500, 503, 599}

\* How the try block of the call ends: httpx.get answers with a status and a
\* body, httpx.get raises, or the TimeoutError of the SIGALRM handler is
\* raised in the block after the status was stored (lines 134-157).
TriedOutcomes ==
    [kind : {"status"}, status : TriedStatusCodes, content : {<<>>}, error : {""}]
    \cup [kind : {"status"}, status : {HttpSuccess}, content : {<<1>>}, error : {""}]
    \cup [kind : {"raise"}, status : {0}, content : {<<>>}, error : TransportErrors]
    \cup [kind : {"interrupted"}, status : TriedStatusCodes, content : {<<>>},
          error : {"unknown_error"}]

\* The engine, the resolver, the codec, the utilities and the command are
\* not run.
FrInit ==
    /\ BkInit
    /\ IsNone(bk)

\* fetch_with_retry(url, attempt_number) is entered: the FetchAttempt is
\* made (lines 122-127) and the try block is under way.
FrEnter ==
    /\ IsNone(fr)
    /\ \E url \in 1..MaxUrls, attempt_number \in 0..MaxAttempts :
          fr' = Some([url |-> url, attempt_number |-> attempt_number,
                      timestamp |-> attempt_number, returned |-> None])
    /\ UNCHANGED << engine_vars, qt, mk, geo, bk, cmd >>

\* The try block ends and fetch_with_retry returns (response, attempt).
FrReturn ==
    /\ ~IsNone(fr)
    /\ IsNone(fr[1].returned)
    /\ \E outcome \in TriedOutcomes :
          LET got == FetchWithRetry(fr[1].url, outcome, fr[1].timestamp)
          IN  fr' = Some([fr[1] EXCEPT
                     !.returned = Some([outcome |-> outcome, response |-> got[1],
                                        attempt |-> got[2]])])
    /\ UNCHANGED << engine_vars, qt, mk, geo, bk, cmd >>

FrNext ==
    \/ FrEnter
    \/ FrReturn

RetrySpec == FrInit /\ [][FrNext]_vars

\* fetch_with_retry has returned.
FrReturned == ~IsNone(fr) /\ ~IsNone(fr[1].returned)
FrAttempt == fr[1].returned[1].attempt
FrOutcome == fr[1].returned[1].outcome

\* C32: every FetchAttempt agrees with the outcome of its try: status_code
\* is null iff error_type is timeout, network_error or unknown_error;
\* error_type is null iff the status is 200 or 404; error_type is
\* server_error iff the status is 500 or above; every other status, below 200
\* and 2xx and 3xx included, gives client_error.
C32_AttemptMatchesOutcome ==
    FrReturned =>
       LET a == FrAttempt
           o == FrOutcome
           has_status == ~IsNone(a.status_code)
       IN  /\ has_status <=> o.kind \in {"status", "interrupted"}
           /\ has_status => a.status_code[1] = o.status
           /\ ~has_status => a.error_type = Some(o.error)
           /\ ~has_status <=>
                 a.error_type \in { Some("timeout"), Some("network_error"),
                                    Some("unknown_error") }
           /\ IsNone(a.error_type) <=> a.status_code \in { Some(200), Some(404) }
           /\ a.error_type = Some("server_error") <=>
                 (has_status /\ a.status_code[1] >= 500)
           /\ (has_status /\ a.status_code[1] \notin {200, 404}
                 /\ a.status_code[1] < 500)
                 => a.error_type = Some("client_error")

\* ================================================== the callers of the engine
\* One run of a caller of fetch_with_timeout: the fetch command
\* (src/fetch_forecast.py) or main (src/noaa_grib_fetcher.py), from the
\* query times to the report.  The engine is taken by its result: the URL
\* that answered 200, if any, and the payload.

\* settings.core_settings.forecast_interval_hours tried by the callers.
CallerIntervals == {3, 6}
\* settings.core_settings.max_lookback_hours tried by the callers.
CallerLookbacks == {0, 12}

\* The callers' test: if result.success and result.data (b"" is falsy)
ReportsSuccess(res) ==
    res.success /\ ~IsNone(res.data) /\ res.data[1] # <<>>

\* generate_output_filename: the folder YYYYMMDD_HH_{model}_{preset} and the
\* file YYYYMMDD_HH_FFF_{model}_{preset}.grib, by their variable parts.
GenerateOutputFilename(forecast_time, forecast_hour) ==
    LET date_part == FormatDateUtc(forecast_time)
        hour_part == ZeroPad(Digits(forecast_time.hour), 2)
    IN  [folder |-> [date_part |-> date_part, hour_part |-> hour_part],
         file |-> [date_part |-> date_part, hour_part |-> hour_part,
                   forecast_hour |-> ZeroPad(Digits(forecast_hour), 3)]]

\* The runs tried: the caller, qs.current_time, the minutes from it to the
\* reading of the clock in generate_qt_batch (lag), the minutes from that
\* reading to the one fetch passes to get_latest_run_start (path_lag; main
\* reads the clock no third time), and the two core settings.
CallerInputs ==
    LET all == { [caller |-> c,
                  reference_time |-> [day |-> DaysFromCivil(d[1], d[2], d[3]),
                                      hour |-> h, minute |-> m],
                  lag |-> l, path_lag |-> pl,
                  forecast_interval_hours |-> i, max_lookback_hours |-> b] :
                    c \in {"fetch", "main"}, d \in ReferenceDates, h \in 0..23,
                    m \in ReferenceMinutes, l \in ClockLags, pl \in ClockLags,
                    i \in CallerIntervals, b \in CallerLookbacks }
    IN  { in \in all : in.caller = "fetch" \/ in.path_lag = 0 }

\* What fetch_with_timeout returns for n URLs: a success at URL i with an
\* empty or a non-empty payload, or the failure.
EngineResults(n) ==
    { [success |-> TRUE, data |-> Some(c), url |-> i] :
         i \in 1..n, c \in { <<>>, <<1>> } }
    \cup { [success |-> FALSE, data |-> None, url |-> 0] }

\* What is in output_path when the TimeoutError of the SIGALRM handler leaves
\* fetch_with_timeout with n URLs: nothing when it was raised before
\* write_bytes, the payload of URL i when it was raised after, and the
\* payload cut short when it was raised in between.
StoredAtTimeout(qt_batch) ==
    { None }
    \cup { Some([cycle |-> qt_batch[i], content |-> c]) :
             i \in DOMAIN qt_batch, c \in { <<>>, <<1>> } }

\* No other part of the program is run.
CmdInit ==
    /\ FrInit
    /\ IsNone(fr)

\* fetch lines 440-479, main lines 325-361: the query times are generated
\* from qs.current_time by generate_qt_batch, which reads the clock again,
\* and the output path is chosen: by fetch from get_latest_run_start of a
\* third reading of the clock, by main as output_dir/test.anl.
CmdResolve ==
    /\ IsNone(cmd)
    /\ \E in \in CallerInputs :
          LET now == PlusMinutes(in.reference_time, in.lag)
              qt_batch == GenerateQtBatch(in.reference_time, now,
                             in.forecast_interval_hours, in.max_lookback_hours)
              path_now == PlusMinutes(now, in.path_lag)
              latest_forecast == GetLatestRunStart(path_now, in.forecast_interval_hours)
          IN  cmd' = Some([in |-> in, pc |-> "resolved", qt_batch |-> qt_batch,
                           output_path |->
                              IF in.caller = "fetch"
                              THEN Some(GenerateOutputFilename(latest_forecast, 0))
                              ELSE None,
                           result |-> None, stored |-> None,
                           reported |-> "", exit_code |-> None, raised |-> ""])
    /\ UNCHANGED << engine_vars, qt, mk, geo, bk, fr >>

\* fetch_with_timeout(query_urls, output_path) returns, on success with the
\* payload of the URL that answered in output_path, or the TimeoutError of
\* its SIGALRM handler leaves it: neither caller catches it, so the run ends
\* there without a result, a report or an exit code of the caller's.
CmdFetch ==
    /\ ~IsNone(cmd)
    /\ cmd[1].pc = "resolved"
    /\ \/ \E res \in EngineResults(Len(cmd[1].qt_batch)) :
             cmd' = Some([cmd[1] EXCEPT
                      !.pc = "fetched",
                      !.result = Some([success |-> res.success, data |-> res.data]),
                      !.stored = IF res.success
                                 THEN Some([cycle |-> cmd[1].qt_batch[res.url],
                                            content |-> res.data[1]])
                                 ELSE None])
       \/ \E st \in StoredAtTimeout(cmd[1].qt_batch) :
             cmd' = Some([cmd[1] EXCEPT
                      !.pc = "ended",
                      !.stored = st,
                      !.raised = "TimeoutError"])
    /\ UNCHANGED << engine_vars, qt, mk, geo, bk, fr >>

\* "Report results": fetch prints the success or raises typer.Exit(code=1);
\* main logs the success or raises ForecastDataUnavailable.
CmdReport ==
    /\ ~IsNone(cmd)
    /\ cmd[1].pc = "fetched"
    /\ LET ok == ReportsSuccess(cmd[1].result[1])
       IN  cmd' = Some([cmd[1] EXCEPT
                   !.pc = "ended",
                   !.reported = IF ok THEN "success" ELSE "failure",
                   !.exit_code = IF cmd[1].in.caller = "fetch"
                                 THEN Some(IF ok THEN 0 ELSE 1)
                                 ELSE None,
                   !.raised = IF cmd[1].in.caller = "main" /\ ~ok
                              THEN "ForecastDataUnavailable" ELSE ""])
    /\ UNCHANGED << engine_vars, qt, mk, geo, bk, fr >>

CmdNext ==
    \/ CmdResolve
    \/ CmdFetch
    \/ CmdReport

CallerSpec == CmdInit /\ [][CmdNext]_vars

\* The run of the caller is over.
CmdEnded == ~IsNone(cmd) /\ cmd[1].pc = "ended"

\* C33: the cycle in the output path chosen by the fetch command, in the
\* folder and in the file name, is the cycle of the data the engine has
\* stored in that file, also when the stored data comes from an older cycle
\* than the latest one.
C33_PathNamesStoredCycle ==
    (~IsNone(cmd) /\ cmd[1].in.caller = "fetch" /\ ~IsNone(cmd[1].stored)) =>
       LET cycle == cmd[1].stored[1].cycle
           path == cmd[1].output_path[1]
       IN  /\ path.folder.date_part = cycle.date_utc
           /\ path.folder.hour_part = cycle.cycle_hour_utc
           /\ path.file.date_part = cycle.date_utc
           /\ path.file.hour_part = cycle.cycle_hour_utc

\* C34: whenever the engine returns success = true, an empty payload
\* included, the fetch command reports the success and exits with code 0 and
\* main does not raise ForecastDataUnavailable; they report a failure only
\* when the engine returned success = false.
C34_CallersAgreeOnSuccess ==
    (CmdEnded /\ ~IsNone(cmd[1].result)) =>
       LET c == cmd[1]
       IN  /\ c.result[1].success =>
                /\ c.reported = "success"
                /\ c.in.caller = "fetch" => c.exit_code = Some(0)
                /\ c.in.caller = "main" => c.raised = ""
           /\ c.reported = "failure" => ~c.result[1].success

====
